---- MODULE Spec2Model ----
(***************************************************************************)
(* A model of class Kmer of Kmer_algorithm.py: the word space, the k-mer   *)
(* counting of words_overlay, optimal_k, correlations, bootstrapping_BCa,  *)
(* sKmer, histogram and the heat maps.                                     *)
(*                                                                         *)
(* Specifications: SpecCount (word counting), SpecOptK (optimal_k),        *)
(* SpecCorr (correlations), SpecBoot and FairSpecBoot (the percentile      *)
(* bootstrap, without and with fairness), SpecJack (the BCa bootstrap),    *)
(* Spec (a session), SpecBins (sKmer with words_overlay and correlations). *)
(*                                                                         *)
(* Conventions.  A genetic sequence is a TLA+ sequence of one-character    *)
(* strings.  Python's 0-based index i is the model's index i + 1.  A       *)
(* Python exception ends the call and the program: err names it and no     *)
(* further operation is enabled.  ordered_kmers = None and all_w = None    *)
(* are the state k = 0 (words_overlay stores a k >= 1 together with both). *)
(***************************************************************************)
EXTENDS Integers, Sequences, FiniteSets, TLC

VARIABLES seqs, files, has_files, limit, binning, corr, k, all_w, ordered_kmers, corr_matrix,
          opt_k, max_k, last, err, built,
          pc, alpha, tolerance, B, y, n, low_tol_N, up_tol_N, low_tol_M, up_tol_M,
          new_size_N, new_size_M,
          values_N, values_M, bound, drawn, corr_values, theta_low, theta_up, corr_func,
          conf_int, calls, BCa, jack_theta, count

\* The attributes of the object, the result of optimal_k, and the history:
\* the last call, the exception that ended it, and the vectors as
\* words_overlay returned them.  limit is -1 and binning 0 until sKmer sets
\* the attributes.
objVars == <<seqs, files, has_files, limit, binning, corr, k, all_w, ordered_kmers, corr_matrix,
             opt_k, max_k, last, err, built>>

\* The tolerance bands of bootstrapping_BCa, lines 340-343.
tolVars == <<low_tol_N, up_tol_N, low_tol_M, up_tol_M>>

\* The position in bootstrapping_BCa, its parameters and locals (bound tells
\* whether values_N and values_M are assigned, drawn whether the body of the
\* retry loop has run since line 337), the rows of Conf_int.txt, and
\* the number of calls of bootstrapping_BCa so far.
\* The switch BCa and the locals of the BCa branch, lines 377-388.
jackVars == <<BCa, jack_theta, count>>

bootVars == <<pc, alpha, tolerance, B, y, n, tolVars, jackVars, new_size_N, new_size_M,
              values_N, values_M, bound, drawn, corr_values, theta_low, theta_up, corr_func,
              conf_int, calls>>

vars == <<objVars, bootVars>>

(***************************************************************************)
(* Bounds of the model.                                                    *)
(***************************************************************************)
MaxLen == 4
MaxK == 2
MaxMaxK == 3
MaxSeqs == 3
MaxCalls == 1

(***************************************************************************)
(* Program constants.                                                      *)
(***************************************************************************)
alphabet == <<"A", "T", "C", "G">>

\* A character that is no alphabet symbol stands for all of them.
Chars == {"A", "T", "C", "G", "N"}

InAlphabet(w) == \E i \in 1..Len(alphabet) : alphabet[i] = w

Max(a, b) == IF a >= b THEN a ELSE b

RECURSIVE Pow(_, _)
Pow(b, e) == IF e = 0 THEN 1 ELSE b * Pow(b, e - 1)

(***************************************************************************)
(* Numbers.  A Python number (an int count, a float quotient, a float      *)
(* correlation) is the pair <<n, d>> of the rational n / d in lowest       *)
(* terms, d > 0; not-a-number is <<0, 0>> and every operation on it gives  *)
(* it back.  An int c and the float c.0 are the same pair, as they are     *)
(* equal in Python.                                                        *)
(***************************************************************************)
NaN == <<0, 0>>

Abs(a) == IF a < 0 THEN -a ELSE a

Sign(a) == IF a < 0 THEN -1 ELSE IF a > 0 THEN 1 ELSE 0

RECURSIVE Gcd(_, _)
Gcd(a, b) == IF b = 0 THEN a ELSE Gcd(b, a % b)

Rat(num, den) ==
    IF den = 0 THEN NaN
    ELSE LET g == Gcd(Abs(num), Abs(den)) IN <<Sign(den) * (num \div g), Abs(den) \div g>>

I(c) == <<c, 1>>

IsNaN(a) == a[2] = 0

RAdd(a, b) == IF IsNaN(a) \/ IsNaN(b) THEN NaN ELSE Rat(a[1] * b[2] + b[1] * a[2], a[2] * b[2])

RSub(a, b) == IF IsNaN(a) \/ IsNaN(b) THEN NaN ELSE Rat(a[1] * b[2] - b[1] * a[2], a[2] * b[2])

\* a < b; every comparison with not-a-number is false.
RLess(a, b) == ~IsNaN(a) /\ ~IsNaN(b) /\ a[1] * b[2] < b[1] * a[2]

RLeq(a, b) == ~IsNaN(a) /\ ~IsNaN(b) /\ a[1] * b[2] <= b[1] * a[2]

\* sum(values) of Python: left to right from 0.
RECURSIVE RSum(_)
\* (The sum of the tail is evaluated once.)
RSum(s) == IF s = <<>> THEN I(0)
           ELSE CHOOSE total \in {RAdd(s[1], rest) : rest \in {RSum(Tail(s))}} : TRUE

RECURSIVE Flatten(_)
Flatten(ss) == IF ss = <<>> THEN <<>> ELSE ss[1] \o Flatten(Tail(ss))

(***************************************************************************)
(* itertools.product(pool, repeat = n), as the library documents it:       *)
(*   result = [[]]                                                         *)
(*   for pool in pools: result = [x + [y] for x in result for y in pool]   *)
(***************************************************************************)
\* The step with its two loops exchanged: the last symbol varies slowest.
ProductStepSwapped(result, pool) ==
    Flatten([j \in 1..Len(pool) |-> [i \in 1..Len(result) |-> Append(result[i], pool[j])]])

ProductStep(result, pool) ==
    Flatten([i \in 1..Len(result) |-> [j \in 1..Len(pool) |-> Append(result[i], pool[j])]])

RECURSIVE Product(_, _)
Product(pool, repeat) == IF repeat = 0 THEN << <<>> >> ELSE ProductStep(Product(pool, repeat - 1), pool)

\* words_overlay, lines 208-210: an array of 4**k slots filled by enumerate.
\* Every slot is filled because the alphabet has four symbols.
WordSpace(kk) == [index \in 1..Pow(4, kk) |-> Product(alphabet, kk)[index]]

\* np.where(self.all_w == key)[0][0]: the first position holding key.
IndexOf(key) == CHOOSE i \in 1..Len(all_w) :
                  /\ all_w[i] = key
                  /\ \A j \in 1..(i - 1) : all_w[j] # key

(***************************************************************************)
(* The sliding window shared by optimal_k (lines 162-171) and              *)
(* words_overlay (lines 218-227).                                          *)
(***************************************************************************)
\* A window too few: len(sequence) - k
EndPosShort(sequence, kk) == Len(sequence) - kk

EndPos(sequence, kk) == Len(sequence) - kk + 1

ValidWord(sub) == \A p \in 1..Len(sub) : InAlphabet(sub[p])

\* kmers after the loop over pos in range(0, end_pos).
Kmers(sequence, kk) ==
    LET windows == [pos \in 1..Max(0, EndPos(sequence, kk)) |->
                       SubSeq(sequence, pos, pos + kk - 1)]
    IN  SelectSeq(windows, ValidWord)

\* A counter of presence: 1 for a word that occurs, however often.
CounterPresence(kmers, key) == IF \E p \in 1..Len(kmers) : kmers[p] = key THEN 1 ELSE 0

\* collections.Counter(kmers)[key]; a missing key counts 0.
Counter(kmers, key) == Cardinality({p \in 1..Len(kmers) : kmers[p] = key})

\* lines 227-229: the tally projected onto the order of all_w.
CountVector(sequence, kk, words) ==
    [i \in 1..Len(words) |-> I(Counter(Kmers(sequence, kk), words[i]))]

(***************************************************************************)
(* optimal_k, lines 157-175.                                               *)
(***************************************************************************)
\* richness[ind][k-1]: one more for every Counter value >= 2.
Richness(sequence, kk) ==
    LET kmers == Kmers(sequence, kk)
    IN  Cardinality({w \in {kmers[p] : p \in 1..Len(kmers)} : Counter(kmers, w) >= 2})

\* np.argmax(row): the first position of the maximum (as a 1-based position).
Argmax(row) ==
    CHOOSE i \in 1..Len(row) : /\ \A j \in 1..Len(row) : row[j] <= row[i]
                               /\ \A j \in 1..(i - 1) : row[j] < row[i]

\* np.argmax(richness[ind]) + 1 for the row over k in range(min_k, max_k).
BestK(sequence, mk) == Argmax([kk \in 1..(mk - 1) |-> Richness(sequence, kk)])

\* The exception optimal_k ends with, "none" when it returns.
OptimalKError(mk) ==
    IF Len(seqs) = 0 THEN "none"
    ELSE IF mk = 1 THEN "ValueError"
    ELSE IF ~has_files THEN "AttributeError"
    ELSE IF Len(files) < Len(seqs) THEN "IndexError"
    ELSE "none"

\* The dict built by the loop; a name met again overwrites its entry.
OptKDict(mk) ==
    [name \in {files[ind] : ind \in 1..Len(seqs)} |->
        LET ind == CHOOSE i \in 1..Len(seqs) :
                      /\ files[i] = name
                      /\ \A j \in (i + 1)..Len(seqs) : files[j] # name
        IN  BestK(seqs[ind], mk)]

(***************************************************************************)
(* Inputs.                                                                 *)
(***************************************************************************)
AllSeqs == UNION {[1..len -> Chars] : len \in 0..MaxLen}

\* The example of the documentation, and sequences with repeated words.
Example == <<"A", "T", "A", "T", "A", "T">>

SeqPool == {Example,
            <<"A", "A", "A", "A">>,
            <<"A", "T", "C", "G">>,
            <<"A", "N", "T", "T", "T">>,
            <<"N", "N">>}

RECURSIVE ListsUpTo(_, _)
ListsUpTo(S, size) ==
    IF size = 0 THEN {<<>>}
    ELSE LET shorter == ListsUpTo(S, size - 1)
         IN  shorter \cup {Append(l, x) : l \in {m \in shorter : Len(m) = size - 1}, x \in S}

Methods == {"P", "S", "T", "ALL"}

(***************************************************************************)
(* __init__, lines 77-94.  seqsArg is a list (None is the empty list the   *)
(* code stores for it); filesNone tells whether the files argument is      *)
(* None: only then the attribute files is created.                         *)
(***************************************************************************)
Construct(seqsArg, corrs, filesNone) ==
    /\ seqs = seqsArg
    /\ corr = corrs
    /\ has_files = filesNone
    /\ files = <<>>
    /\ limit = -1
    /\ binning = 0
    /\ k = 0
    /\ all_w = <<>>
    /\ corr_matrix = <<>>
    /\ ordered_kmers = <<>>
    /\ built = <<>>
    /\ opt_k = <<>>
    /\ max_k = 0
    /\ last = "init"
    /\ err = "none"
    /\ pc = "idle"
    /\ alpha = I(0)
    /\ tolerance = 0
    /\ B = 0
    /\ y = 0
    /\ n = 0
    /\ low_tol_N = I(0)
    /\ up_tol_N = I(0)
    /\ low_tol_M = I(0)
    /\ up_tol_M = I(0)
    /\ new_size_N = I(0)
    /\ new_size_M = I(0)
    /\ values_N = <<>>
    /\ values_M = <<>>
    /\ bound = FALSE
    /\ drawn = FALSE
    /\ corr_values = <<>>
    /\ theta_low = <<>>
    /\ theta_up = <<>>
    /\ corr_func = <<>>
    /\ conf_int = <<>>
    /\ calls = 0
    /\ BCa = FALSE
    /\ jack_theta = <<>>
    /\ count = <<>>

(***************************************************************************)
(* read_seqs, lines 114-136.  A directory is the sorted list of its files; *)
(* a file is [kind, seq]: a FASTA file with its sequence, a GenBank file   *)
(* with or without a source feature, or another file.                      *)
(***************************************************************************)
FileName(i) == <<"f1", "f2", "f3", "f4">>[i]

Kinds == {"fasta", "gb", "gb_nosource", "other"}

DirPool == {<<"A", "T", "A", "T">>, <<>>}

Dirs == ListsUpTo([kind : Kinds, seq : DirPool], MaxSeqs) \ {<<>>}

\* The first FASTA file whose sequence is empty: seq[0] raises there.
FailAt(dir) ==
    LET bad == {i \in 1..Len(dir) : dir[i].kind = "fasta" /\ dir[i].seq = <<>>}
    IN  IF bad = {} THEN Len(dir) + 1 ELSE CHOOSE i \in bad : \A j \in bad : i <= j

Taken(dir, upto) == {i \in 1..upto : dir[i].kind \in {"fasta", "gb"}}

RECURSIVE Gather(_, _, _)
Gather(dir, from, upto) ==
    IF from > upto THEN <<>>
    ELSE (IF from \in Taken(dir, upto) THEN <<dir[from].seq>> ELSE <<>>)
         \o Gather(dir, from + 1, upto)

RECURSIVE GatherNames(_, _, _)
GatherNames(dir, from, upto) ==
    IF from > upto THEN <<>>
    ELSE (IF from \in Taken(dir, upto) THEN <<FileName(from)>> ELSE <<>>)
         \o GatherNames(dir, from + 1, upto)

ReadSeqs(dir) ==
    /\ err = "none"
    /\ pc = "idle"
    /\ LET stop == FailAt(dir)
           read == Gather(dir, 1, stop - 1)
       IN  /\ Len(seqs) + Len(read) <= MaxSeqs
           /\ seqs' = seqs \o read
           /\ IF stop <= Len(dir)
              THEN /\ files' = [i \in 1..Len(dir) |-> FileName(i)]
                   /\ err' = "IndexError"
              ELSE /\ files' = GatherNames(dir, 1, Len(dir))
                   /\ err' = "none"
    /\ has_files' = TRUE
    /\ last' = "read_seqs"
    /\ UNCHANGED <<limit, binning, corr, k, all_w, ordered_kmers, corr_matrix, opt_k, max_k,
                   built, bootVars>>

(***************************************************************************)
(* words_overlay(k), lines 197-229, with k given.                          *)
(***************************************************************************)
WordsOverlay(kk) ==
    /\ err = "none"
    /\ pc = "idle"
    /\ k' = kk
    /\ all_w' = WordSpace(kk)
    /\ ordered_kmers' = [index \in 1..Len(seqs) |-> CountVector(seqs[index], kk, all_w')]
    /\ built' = ordered_kmers'
    /\ last' = "words_overlay"
    /\ UNCHANGED <<seqs, files, has_files, limit, binning, corr, corr_matrix, opt_k, max_k, err, bootVars>>

(***************************************************************************)
(* optimal_k(max_k), lines 153-179.                                        *)
(***************************************************************************)
OptimalK(mk) ==
    /\ err = "none"
    /\ pc = "idle"
    /\ max_k' = mk
    /\ err' = OptimalKError(mk)
    /\ opt_k' = IF err' = "none" THEN OptKDict(mk) ELSE <<>>
    /\ last' = "optimal_k"
    /\ UNCHANGED <<seqs, files, has_files, limit, binning, corr, k, all_w, ordered_kmers, corr_matrix, built,
                   bootVars>>

(***************************************************************************)
(* Word counting: words_overlay applied to every short sequence.           *)
(***************************************************************************)
InitCount ==
    \E seqsArg \in {<<s>> : s \in AllSeqs \cup {Example}} \cup ListsUpTo(SeqPool, MaxSeqs) :
        Construct(seqsArg, "P", TRUE)

NextCount == \E kk \in 1..MaxK : WordsOverlay(kk)

SpecCount == InitCount /\ [][NextCount]_vars

(***************************************************************************)
(* optimal_k on an object built from lists or filled by read_seqs.         *)
(***************************************************************************)
InitOptK ==
    \E seqsArg \in ListsUpTo(SeqPool, MaxSeqs), filesNone \in BOOLEAN :
        Construct(seqsArg, "P", filesNone)

NextOptK ==
    \/ \E dir \in Dirs : ReadSeqs(dir)
    \/ \E mk \in 1..MaxMaxK : OptimalK(mk)

SpecOptK == InitOptK /\ [][NextOptK]_vars

(***************************************************************************)
(* Claims about the word space and the counting.                           *)
(***************************************************************************)
AlphabetSet == {"A", "T", "C", "G"}

Rank(w) == CHOOSE i \in 1..4 : <<"A", "T", "C", "G">>[i] = w

\* u comes before v in the order of the Cartesian product.
LexLess(u, v) ==
    \E q \in 1..Len(u) : /\ \A r \in 1..(q - 1) : u[r] = v[r]
                         /\ Rank(u[q]) < Rank(v[q])

\* The start positions (1-based) of the windows of width kk.
Starts(sequence, kk) == 1..(Len(sequence) - kk + 1)

WindowInAlphabet(sequence, p, kk) == \A q \in 0..(kk - 1) : sequence[p + q] \in AlphabetSet

WindowIs(sequence, p, word) == \A q \in 1..Len(word) : sequence[p + q - 1] = word[q]

ExampleVector == [i \in 1..16 |-> IF i = 2 THEN I(3) ELSE IF i = 5 THEN I(2) ELSE I(0)]

\* C1: after words_overlay, entry i of the vector of every sequence is the
\* number of start positions whose window lies in the alphabet and equals
\* WordSpace[i]; windows with another character count nowhere and raise no
\* error; "ATATAT" with k = 2 gives AT = 3, TA = 2 and 0 elsewhere.
C1_WindowCount ==
    k >= 1 =>
      /\ err = "none"
      /\ Len(ordered_kmers) = Len(seqs)
      /\ \A idx \in 1..Len(seqs) :
           /\ Len(ordered_kmers[idx]) = Len(all_w)
           /\ \A i \in 1..Len(all_w) :
                ordered_kmers[idx][i] =
                  I(Cardinality({p \in Starts(seqs[idx], k) :
                                   /\ WindowInAlphabet(seqs[idx], p, k)
                                   /\ WindowIs(seqs[idx], p, all_w[i])}))
           /\ (seqs[idx] = Example /\ k = 2) => ordered_kmers[idx] = ExampleVector

\* A sequence with rejected and with counted windows: AN, NT, TT, TT.
C1_Witness ==
    /\ k = 2
    /\ \E idx \in 1..Len(seqs) :
         /\ seqs[idx] = <<"A", "N", "T", "T", "T">>
         /\ ordered_kmers[idx][6] = I(2)
         /\ RSum(ordered_kmers[idx]) = I(2)

NoBadWindow(sequence, kk) == \A p \in Starts(sequence, kk) : WindowInAlphabet(sequence, p, kk)

\* C2 as stated: the vector has 4^k entries and its sum is at most
\* len - k + 1, with equality exactly when no window holds a character
\* outside the alphabet, sequences shorter than k included.
C2_SumBound_Original ==
    k >= 1 =>
      \A idx \in 1..Len(seqs) :
        /\ Len(ordered_kmers[idx]) = Pow(4, k)
        /\ RLeq(RSum(ordered_kmers[idx]), I(Len(seqs[idx]) - k + 1))
        /\ (RSum(ordered_kmers[idx]) = I(Len(seqs[idx]) - k + 1)) <=> NoBadWindow(seqs[idx], k)

\* C2 amended: the vector has 4^k entries and its sum is at most the number
\* of windows, max(0, len - k + 1), with equality exactly when no window
\* holds a character outside the alphabet.
C2_SumBound ==
    k >= 1 =>
      \A idx \in 1..Len(seqs) :
        /\ Len(ordered_kmers[idx]) = Pow(4, k)
        /\ RLeq(RSum(ordered_kmers[idx]), I(Max(0, Len(seqs[idx]) - k + 1)))
        /\ (RSum(ordered_kmers[idx]) = I(Max(0, Len(seqs[idx]) - k + 1)))
             <=> NoBadWindow(seqs[idx], k)

\* A sequence with fewer than k - 1 characters, and one with a bad window.
C2_Witness ==
    /\ k = 2
    /\ Len(seqs) = 2
    /\ seqs[1] = <<"N", "N">> /\ RSum(ordered_kmers[1]) = I(0)
    /\ seqs[2] = <<"A", "T", "C", "G">> /\ RSum(ordered_kmers[2]) = I(3)

\* C3: the word space has 4^k entries, all distinct, in the order of the
\* Cartesian product; index -> word -> index is the identity and every word
\* of length k over the alphabet has exactly one index.
C3_WordSpaceBijection ==
    k >= 1 =>
      /\ Len(all_w) = Pow(4, k)
      /\ \A i \in 1..Len(all_w) : IndexOf(all_w[i]) = i
      /\ \A i, j \in 1..Len(all_w) : i < j => LexLess(all_w[i], all_w[j])
      /\ \A w \in [1..k -> AlphabetSet] :
           Cardinality({i \in 1..Len(all_w) : all_w[i] = w}) = 1

C3_Witness ==
    /\ k = 2
    /\ all_w[2] = <<"A", "T">>
    /\ IndexOf(<<"G", "G">>) = 16

(***************************************************************************)
(* Claims about optimal_k.                                                 *)
(***************************************************************************)
\* The words of length kk over the alphabet met at two or more positions.
RepeatedWords(sequence, kk) ==
    {w \in [1..kk -> AlphabetSet] :
       Cardinality({p \in Starts(sequence, kk) : WindowIs(sequence, p, w)}) >= 2}

IsSmallestBest(sequence, mk, kstar) ==
    /\ kstar \in 1..(mk - 1)
    /\ \A kk \in 1..(mk - 1) :
         Cardinality(RepeatedWords(sequence, kk)) <= Cardinality(RepeatedWords(sequence, kstar))
    /\ \A kk \in 1..(kstar - 1) :
         Cardinality(RepeatedWords(sequence, kk)) < Cardinality(RepeatedWords(sequence, kstar))

\* C9: optimal_k(max_k) returns a mapping with an entry for the identifier
\* of every sequence, whose value is the smallest k in 1 <= k < max_k with
\* the most distinct k-mers met at least twice among the valid windows.
C9_OptimalK ==
    (last = "optimal_k" /\ max_k >= 2) =>
      /\ err = "none"
      /\ \A ind \in 1..Len(seqs) :
           /\ has_files
           /\ ind <= Len(files)
           /\ files[ind] \in DOMAIN opt_k
           /\ IsSmallestBest(seqs[ind], max_k, opt_k[files[ind]])

\* The part of C9 the code keeps: whenever optimal_k returns, every entry it
\* made is the smallest best k of the sequence at that position.
C9_WhenItReturns ==
    (last = "optimal_k" /\ max_k >= 2 /\ err = "none") =>
      \A ind \in 1..Len(seqs) :
        /\ files[ind] \in DOMAIN opt_k
        /\ IsSmallestBest(seqs[ind], max_k, opt_k[files[ind]])

(***************************************************************************)
(* The three statistics of scipy.stats called at lines 249-260 and         *)
(* 362-370, on two vectors of numbers of one length.  A coefficient        *)
(* c / sqrt(D) is kept as a fixed-point float: its magnitude is cut to     *)
(* Scale-ths.  A constant vector gives not-a-number.                       *)
(***************************************************************************)
Scale == 100

Lcm(a, b) == (a * b) \div Gcd(a, b)

RECURSIVE LcmDen(_)
LcmDen(v) == IF v = <<>> THEN 1 ELSE Lcm(v[1][2], LcmDen(Tail(v)))

\* The vector times the common denominator of its entries: no statistic
\* below changes when a vector is multiplied by a positive number.
Ints(v) == LET l == LcmDen(v) IN [i \in 1..Len(v) |-> v[i][1] * (l \div v[i][2])]

RECURSIVE Dot(_, _)
Dot(a, b) == IF a = <<>> THEN 0 ELSE a[1] * b[1] + Dot(Tail(a), Tail(b))

Ones(size) == [i \in 1..size |-> 1]

\* n * sum(a b) - sum(a) sum(b): n^2 times the covariance.
CovN(a, b) == Len(a) * Dot(a, b) - Dot(a, Ones(Len(a))) * Dot(b, Ones(Len(b)))

ISqrt(q) == CHOOSE r \in 0..Scale : r * r <= q /\ (r + 1) * (r + 1) > q

\* c / sqrt(D) for c * c <= D, D > 0: floor(Scale^2 c^2 / D) by long division,
\* then the integer square root.
Fixed(c, D) ==
    LET c2 == c * c
        q0 == c2 \div D
        r0 == c2 % D
        q1 == (Scale * r0) \div D
        r1 == (Scale * r0) % D
        q2 == (Scale * r1) \div D
    IN  Rat(Sign(c) * ISqrt(Scale * Scale * q0 + Scale * q1 + q2), Scale)

\* scipy.stats.pearsonr(X, Y)[0]
pearsonr(X, Y) ==
    LET a == Ints(X)
        b == Ints(Y)
        va == CovN(a, a)
        vb == CovN(b, b)
    IN  IF va = 0 \/ vb = 0 THEN NaN ELSE Fixed(CovN(a, b), va * vb)

\* Twice the average rank of every entry, less n + 1: ranks centred at 0.
Ranks(a) ==
    [i \in 1..Len(a) |->
        2 * Cardinality({j \in 1..Len(a) : a[j] < a[i]})
        + Cardinality({j \in 1..Len(a) : a[j] = a[i]}) - Len(a)]

\* scipy.stats.spearmanr(X, Y)[0]: Pearson's coefficient of the ranks.
spearmanr(X, Y) ==
    LET ra == Ranks(Ints(X))
        rb == Ranks(Ints(Y))
        va == Dot(ra, ra)
        vb == Dot(rb, rb)
    IN  IF va = 0 \/ vb = 0 THEN NaN ELSE Fixed(Dot(ra, rb), va * vb)

Pairs(size) == {p \in (1..size) \X (1..size) : p[1] < p[2]}

\* scipy.stats.kendalltau(X, Y)[0]: tau-b.
kendalltau(X, Y) ==
    LET a == Ints(X)
        b == Ints(Y)
        P == Pairs(Len(a))
        con == Cardinality({p \in P : (a[p[1]] - a[p[2]]) * (b[p[1]] - b[p[2]]) > 0})
        dis == Cardinality({p \in P : (a[p[1]] - a[p[2]]) * (b[p[1]] - b[p[2]]) < 0})
        xtie == Cardinality({p \in P : a[p[1]] = a[p[2]]})
        ytie == Cardinality({p \in P : b[p[1]] = b[p[2]]})
        tot == Cardinality(P)
    IN  IF xtie = tot \/ ytie = tot THEN NaN
        ELSE Fixed(con - dis, (tot - xtie) * (tot - ytie))

(***************************************************************************)
(* correlations, lines 241-273.  corr_matrix is a list of three N x N      *)
(* arrays; layer l of the code is layer l + 1 here.                        *)
(***************************************************************************)
Zeros(size) == [row \in 1..size |-> [col \in 1..size |-> I(0)]]

\* What the pass over (x, y) = (row, col) with x >= y stores in a layer,
\* lines 248-263.
PairValue(layer, row, col) ==
    LET R == ordered_kmers[row]
        O == ordered_kmers[col]
    IN  IF corr = "S" THEN (IF layer = Len(corr) THEN spearmanr(R, O) ELSE I(0))
        ELSE IF corr = "T" THEN (IF layer = Len(corr) THEN kendalltau(R, O) ELSE I(0))
        ELSE IF corr = "P" THEN (IF layer = Len(corr) THEN pearsonr(R, O) ELSE I(0))
        ELSE IF layer = 1 THEN spearmanr(R, O)
        ELSE IF layer = 2 THEN kendalltau(R, O)
        ELSE pearsonr(R, O)

\* The lower triangle of the rows before row stopRow.
LowerTriangle(layer, size, stopRow) ==
    [row \in 1..size |-> [col \in 1..size |->
        IF row >= col /\ row < stopRow THEN PairValue(layer, row, col) ELSE I(0)]]

\* lines 267-270
Stop == IF corr = "ALL" THEN 3 ELSE 1

\* The mirror without the subtraction of the diagonal: m + m.T
MirrorKeepDiagonal(m) ==
    [row \in 1..Len(m) |-> [col \in 1..Len(m) |-> RAdd(m[row][col], m[col][row])]]

\* No mirror: the strict upper triangle is left at zero.
MirrorNothing(m) == m

\* lines 272-273: m + m.T - np.diag(m.diagonal())
Mirror(m) ==
    [row \in 1..Len(m) |-> [col \in 1..Len(m) |->
        RSub(RAdd(m[row][col], m[col][row]), IF row = col THEN m[row][row] ELSE I(0))]]

\* The exception correlations ends with and the row it ends in.
CorrelationsError ==
    IF Len(seqs) = 0 THEN "none"
    ELSE IF k = 0 THEN "TypeError"
    ELSE IF Len(ordered_kmers) < Len(seqs) THEN "IndexError"
    ELSE "none"

CorrelationsStopRow ==
    IF CorrelationsError = "none" THEN Len(seqs) + 1
    ELSE IF k = 0 THEN 1
    ELSE Len(ordered_kmers) + 1

Correlations ==
    /\ err = "none"
    /\ pc = "idle"
    /\ err' = CorrelationsError
    /\ corr_matrix' =
         [layer \in 1..3 |->
            LET lower == LowerTriangle(layer, Len(seqs), CorrelationsStopRow)
            IN  IF err' = "none" /\ layer <= Stop THEN Mirror(lower) ELSE lower]
    /\ last' = "correlations"
    /\ UNCHANGED <<seqs, files, has_files, limit, binning, corr, k, all_w, ordered_kmers, opt_k, max_k, built,
                   bootVars>>

(***************************************************************************)
(* Word counting followed by correlations, for every method.               *)
(***************************************************************************)
Ks == {1, 2}

InitCorr ==
    \E seqsArg \in ListsUpTo(SeqPool, MaxSeqs), corrs \in Methods :
        Construct(seqsArg, corrs, TRUE)

NextCorr ==
    \/ \E kk \in Ks : WordsOverlay(kk)
    \/ Correlations

SpecCorr == InitCorr /\ [][NextCorr]_vars

\* The layers the method of the run writes.
UsedLayers == IF corr = "ALL" THEN 1..3 ELSE {1}

Degenerate(v) == \A i, j \in 1..Len(v) : v[i] = v[j]

\* C4: after correlations() completes, every layer is symmetric (a pair of
\* not-a-number entries counts as equal) and every diagonal entry of a layer
\* in use is the self-correlation of its vector: 1.0, or not-a-number when
\* the vector is constant.
C4_Symmetric ==
    (last = "correlations" /\ err = "none") =>
      /\ Len(corr_matrix) = 3
      /\ \A layer \in 1..3 : \A i, j \in 1..Len(seqs) :
           corr_matrix[layer][i][j] = corr_matrix[layer][j][i]
      /\ \A layer \in UsedLayers : \A i \in 1..Len(seqs) :
           corr_matrix[layer][i][i] = IF Degenerate(ordered_kmers[i]) THEN NaN ELSE I(1)

\* Three sequences under ALL, one of them without a valid window, and two
\* whose Pearson coefficient is neither 0 nor 1.
C4_Witness ==
    /\ last = "correlations" /\ err = "none" /\ corr = "ALL" /\ Len(seqs) = 3
    /\ Degenerate(ordered_kmers[3])
    /\ IsNaN(corr_matrix[3][1][3])
    /\ RLess(I(0), corr_matrix[3][1][2]) /\ RLess(corr_matrix[3][1][2], I(1))

\* The statistic a layer in use holds for the vectors R and O.
LayerValue(layer, R, O) ==
    LET method == IF corr = "ALL" THEN <<"S", "T", "P">>[layer] ELSE corr
    IN  IF method = "S" THEN spearmanr(R, O)
        ELSE IF method = "T" THEN kendalltau(R, O)
        ELSE pearsonr(R, O)

\* C11: with the words extracted correlations() does not fail; a pair with a
\* constant (zero-variance) vector holds not-a-number at M[i][j] and at
\* M[j][i], and every entry of a layer in use is, after the mirror, the
\* statistic of its own pair of vectors.
C11_UndefinedRecorded ==
    (last = "correlations" /\ k >= 1) =>
      /\ err = "none"
      /\ \A layer \in UsedLayers : \A i, j \in 1..Len(seqs) :
           /\ (Degenerate(ordered_kmers[i]) \/ Degenerate(ordered_kmers[j]))
                 => IsNaN(corr_matrix[layer][i][j]) /\ IsNaN(corr_matrix[layer][j][i])
           /\ corr_matrix[layer][i][j] =
                LayerValue(layer, ordered_kmers[Max(i, j)],
                           ordered_kmers[IF i < j THEN i ELSE j])

\* Pearson alone on three sequences: the second has a constant vector, and
\* the pair of the first and the third has a value other than 0 and 1 on
\* both sides of the diagonal.
C11_Witness ==
    /\ last = "correlations" /\ err = "none" /\ corr = "P" /\ Len(seqs) = 3
    /\ Degenerate(ordered_kmers[2]) /\ ~Degenerate(ordered_kmers[1])
    /\ IsNaN(corr_matrix[1][1][2]) /\ IsNaN(corr_matrix[1][2][1])
    /\ corr_matrix[1][1][3] = corr_matrix[1][3][1]
    /\ corr_matrix[1][1][3] \notin {NaN, I(0), I(1)}

(***************************************************************************)
(* bootstrapping_BCa(alpha, tolerance, B, BCa), lines 312-429.            *)
(*  The reference is sequence x = 0 (here 1);  *)
(* y is the other sequence of the pair, n the number of replicates of the  *)
(* pair computed so far.  The call is followed block by block:             *)
(*   "for_y"  at the head of the loop over y, line 330                     *)
(*   "for_n"  at the head of the loop over n, line 333                     *)
(*   "while"  at the test of the retry loop, line 346                      *)
(*   "stats"  after the retry loop, line 361                               *)
(*   "bca"    in the BCa branch after the jackknife, line 392               *)
(* An exception ends the call: pc is "idle" again and err names it.        *)
(***************************************************************************)
FloorR(a) == a[1] \div a[2]

CeilR(a) == -((-a[1]) \div a[2])

RDiv(a, b) ==
    IF IsNaN(a) \/ IsNaN(b) THEN NaN ELSE Rat(a[1] * b[2], a[2] * b[1])

RMul(a, b) == IF IsNaN(a) \/ IsNaN(b) THEN NaN ELSE Rat(a[1] * b[1], a[2] * b[2])

\* list[i] of Python for an index i that may be negative; the list is not
\* empty and -len <= i < len.
PyItem(list, i) == IF i < 0 THEN list[Len(list) + i + 1] ELSE list[i + 1]

(***************************************************************************)
(* sorted(list) of CPython for fewer than 64 items: the first run is found *)
(* (and reversed if it descends strictly), the rest is inserted by binary  *)
(* search.  Every comparison is a < b, false for not-a-number.             *)
(***************************************************************************)
RECURSIVE RunEnd(_, _, _)
RunEnd(a, i, desc) ==
    IF i < Len(a) /\ (RLess(a[i + 1], a[i]) <=> desc) THEN RunEnd(a, i + 1, desc) ELSE i

Reverse(a) == [i \in 1..Len(a) |-> a[Len(a) + 1 - i]]

RECURSIVE BSearch(_, _, _, _)
BSearch(a, pivot, l, r) ==
    IF l >= r THEN l
    ELSE LET p == l + ((r - l) \div 2)
         IN  IF RLess(pivot, a[p + 1]) THEN BSearch(a, pivot, l, p)
             ELSE BSearch(a, pivot, p + 1, r)

RECURSIVE BinarySort(_, _)
BinarySort(a, start) ==
    IF start >= Len(a) THEN a
    ELSE LET pivot == a[start + 1]
             l == BSearch(a, pivot, 0, start)
         IN  BinarySort(SubSeq(a, 1, l) \o <<pivot>> \o SubSeq(a, l + 1, start)
                          \o SubSeq(a, start + 2, Len(a)),
                        start + 1)

Sorted(a) ==
    IF Len(a) < 2 THEN a
    ELSE LET desc == RLess(a[2], a[1])
             run == RunEnd(a, 2, desc)
             first == IF desc THEN Reverse(SubSeq(a, 1, run)) \o SubSeq(a, run + 1, Len(a))
                      ELSE a
         IN  BinarySort(first, run)

\* The test of the while loop, lines 346-347.
WhileTest ==
    /\ (RLeq(new_size_N, low_tol_N) \/ RLeq(up_tol_N, new_size_N))
    /\ (RLeq(new_size_M, low_tol_M) \/ RLeq(up_tol_M, new_size_M))

\* np.random.choice(self.all_w, len(self.all_w)): any list of len(all_w)
\* words of all_w.  A list and its rearrangements gather the same pairs
\* (values_N[i], values_M[i]) in another order, and neither the sums nor the
\* three statistics depend on that order: the lists are enumerated up to
\* rearrangement, in the order of all_w.
RECURSIVE Ascending(_, _, _)
Ascending(len, lo, hi) ==
    IF len = 0 THEN {<<>>}
    ELSE UNION {{<<v>> \o t : t \in Ascending(len - 1, v, hi)} : v \in lo..hi}

Draws ==
    {[i \in 1..Len(all_w) |-> all_w[idx[i]]] : idx \in Ascending(Len(all_w), 1, Len(all_w))}

\* lines 350-356: the vector gathered at the indices of the drawn words.
Gathered(vector, sample_keys) ==
    [i \in 1..Len(sample_keys) |-> vector[IndexOf(sample_keys[i])]]

\* lines 327-328: [mt.nan] * (len(self.seqs) - 1)
NaNs == [i \in 1..(Len(seqs) - 1) |-> NaN]

\* The locals are gone when the call is over.
CallOver ==
    /\ pc' = "idle"
    /\ alpha' = I(0) /\ tolerance' = 0 /\ B' = 0 /\ y' = 0 /\ n' = 0
    /\ low_tol_N' = I(0) /\ up_tol_N' = I(0) /\ low_tol_M' = I(0) /\ up_tol_M' = I(0)
    /\ new_size_N' = I(0) /\ new_size_M' = I(0)
    /\ values_N' = <<>> /\ values_M' = <<>> /\ bound' = FALSE /\ drawn' = FALSE
    /\ corr_values' = <<>> /\ theta_low' = <<>> /\ theta_up' = <<>> /\ corr_func' = <<>>
    /\ BCa' = FALSE /\ jack_theta' = <<>> /\ count' = <<>>

Raise(exception) ==
    /\ err' = exception
    /\ last' = "bootstrapping_BCa"
    /\ CallOver
    /\ UNCHANGED <<seqs, files, has_files, limit, binning, corr, k, all_w, ordered_kmers, corr_matrix,
                   opt_k, max_k, built, conf_int, calls>>

\* lines 312-329: the call up to the head of the loop over y.
BootstrappingBCa(a, tol, b, flag) ==
    /\ err = "none"
    /\ pc = "idle"
    /\ calls < MaxCalls
    /\ calls' = calls + 1
    /\ alpha' = a
    /\ tolerance' = tol
    /\ B' = b
    /\ theta_low' = IF Stop = 3 THEN <<<<>>, <<>>, <<>>>> ELSE <<<<>>, NaNs, NaNs>>
    /\ theta_up' = theta_low'
    /\ corr_func' = theta_low'
    /\ y' = 2
    /\ pc' = "for_y"
    /\ BCa' = flag
    /\ UNCHANGED <<objVars, n, tolVars, jack_theta, count, new_size_N, new_size_M, values_N, values_M, bound, drawn,
                   corr_values, conf_int>>

\* lines 330-332: the next pair.
NextPair ==
    /\ pc = "for_y"
    /\ y <= Len(seqs)
    /\ corr_values' = [h \in 1..Stop |-> <<>>]
    /\ n' = 0
    /\ pc' = "for_n"
    /\ UNCHANGED <<objVars, alpha, tolerance, tolVars, jackVars, B, y, new_size_N, new_size_M, values_N,
                   values_M, bound, drawn, theta_low, theta_up, corr_func, conf_int, calls>>

\* The exception of lines 340-343, "none" when the sums can be taken.
ToleranceError ==
    IF k = 0 THEN "TypeError"
    ELSE IF Len(ordered_kmers) < y THEN "IndexError"
    ELSE "none"

\* lines 333-343: the next replicate, up to the test of the retry loop.
NextReplicate ==
    /\ pc = "for_n"
    /\ n < B
    /\ IF ToleranceError # "none" THEN Raise(ToleranceError)
       ELSE /\ new_size_N' = I(0)
            /\ new_size_M' = I(0)
            /\ drawn' = FALSE
            /\ low_tol_N' = RSub(RSum(ordered_kmers[1]), I(tolerance))
            /\ up_tol_N' = RAdd(RSum(ordered_kmers[1]), I(tolerance))
            /\ low_tol_M' = RSub(RSum(ordered_kmers[y]), I(tolerance))
            /\ up_tol_M' = RAdd(RSum(ordered_kmers[y]), I(tolerance))
            /\ pc' = "while"
            /\ UNCHANGED <<objVars, alpha, tolerance, jackVars, B, y, n, values_N, values_M, bound,
                           corr_values, theta_low, theta_up, corr_func, conf_int, calls>>

\* lines 349-359: the body of the retry loop.
Redraw(sample_keys) ==
    /\ values_N' = Gathered(ordered_kmers[1], sample_keys)
    /\ values_M' = Gathered(ordered_kmers[y], sample_keys)
    /\ bound' = TRUE
    /\ drawn' = TRUE
    /\ new_size_N' = RSum(values_N')
    /\ new_size_M' = RSum(values_M')
    /\ UNCHANGED <<objVars, pc, alpha, tolerance, tolVars, jackVars, B, y, n, corr_values, theta_low, theta_up,
                   corr_func, conf_int, calls>>

\* lines 346-359: the test holds and the loop draws again.
RetryLoop ==
    /\ pc = "while"
    /\ WhileTest
    /\ \E sample_keys \in Draws : Redraw(sample_keys)

\* lines 361-370: the statistics of the resampled vectors, appended.
Replicate ==
    IF corr = "S" THEN <<Append(corr_values[1], spearmanr(values_N, values_M))>>
    ELSE IF corr = "T" THEN <<Append(corr_values[1], kendalltau(values_N, values_M))>>
    ELSE IF corr = "P" THEN <<Append(corr_values[1], pearsonr(values_N, values_M))>>
    ELSE <<Append(corr_values[1], spearmanr(values_N, values_M)),
           Append(corr_values[2], kendalltau(values_N, values_M)),
           Append(corr_values[3], pearsonr(values_N, values_M))>>

\* lines 346-347: the test fails and the retry loop is left.
ExitLoop ==
    /\ pc = "while"
    /\ ~WhileTest
    /\ pc' = "stats"
    /\ UNCHANGED <<objVars, alpha, tolerance, tolVars, jackVars, B, y, n, new_size_N, new_size_M,
                   values_N, values_M, bound, drawn, corr_values, theta_low, theta_up,
                   corr_func, conf_int, calls>>

\* lines 361-370: the replicate of the accepted draw.
Statistics ==
    /\ pc = "stats"
    /\ IF ~bound THEN Raise("UnboundLocalError")
       ELSE /\ corr_values' = Replicate
            /\ n' = n + 1
            /\ pc' = "for_n"
            /\ UNCHANGED <<objVars, alpha, tolerance, tolVars, jackVars, B, y, new_size_N, new_size_M,
                           values_N, values_M, bound, drawn, theta_low, theta_up, corr_func,
                           conf_int, calls>>

\* lines 409-414, with CL = 1 - alpha: int(B * (1 - CL)) and CL * B rounded up.
LowerAlpha(b, a) == FloorR(RMul(I(b), a))

UpperAlpha(b, a) == CeilR(RMul(I(b), RSub(I(1), a)))

lower_alpha == LowerAlpha(B, alpha)

upper_alpha == UpperAlpha(B, alpha)

\* The exception of line 419, "none" when corr_matrix[h][x][y] can be read.
PointError ==
    IF corr_matrix = <<>> THEN "TypeError"
    ELSE IF Len(corr_matrix[1]) < y THEN "IndexError"
    ELSE "none"

\* lines 373 and 408-419: the replicates sorted, the interval of the pair.
Interval ==
    /\ pc = "for_n"
    /\ n >= B
    /\ ~BCa
    /\ IF PointError # "none" THEN Raise(PointError)
       ELSE LET sorted == [h \in 1..Stop |-> Sorted(corr_values[h])]
            IN  /\ corr_values' = sorted
                /\ theta_low' = [h \in 1..3 |->
                      IF h <= Stop THEN Append(theta_low[h], PyItem(sorted[h], lower_alpha - 1))
                      ELSE theta_low[h]]
                /\ theta_up' = [h \in 1..3 |->
                      IF h <= Stop THEN Append(theta_up[h], PyItem(sorted[h], upper_alpha - 1))
                      ELSE theta_up[h]]
                /\ corr_func' = [h \in 1..3 |->
                      IF h <= Stop THEN Append(corr_func[h], corr_matrix[h][1][y])
                      ELSE corr_func[h]]
                /\ y' = y + 1
                /\ pc' = "for_y"
                /\ UNCHANGED <<objVars, alpha, tolerance, tolVars, jackVars, B, n, new_size_N, new_size_M,
                               values_N, values_M, bound, drawn, conf_int, calls>>

\* line 385: sum(l for l in list if l != list[j]); not-a-number differs
\* from every number and from itself.
JackSum(list, j) ==
    LET Differs(l) == IsNaN(l) \/ IsNaN(list[j]) \/ l # list[j]
    IN  RSum(SelectSeq(list, Differs))

\* lines 385 and 390: the sums divided by len(jack_theta[k]) - 1.
JackTheta(list) ==
    [j \in 1..Len(list) |-> RDiv(JackSum(list, j), I(Len(list) - 1))]

\* lines 386-387: the replicates below the correlation of the pair.
Count(list, point) == Cardinality({j \in 1..Len(list) : RLess(list[j], point)})

\* lines 373 and 377-391 for every layer in use: the replicates sorted, the
\* jackknife values and the counts.  With one replicate line 390 divides by
\* 0: the sum that left the replicate out is the int 0 and the division
\* raises; a not-a-number replicate stays in the sum, and the division
\* raises or gives not-a-number (then int() raises at line 395) as the
\* replicate is a float or a numpy.float64.
Jackknife ==
    /\ pc = "for_n"
    /\ n >= B
    /\ BCa
    /\ IF PointError # "none" THEN Raise(PointError)
       ELSE IF B = 1 /\ ~IsNaN(corr_values[1][1]) THEN Raise("ZeroDivisionError")
       ELSE IF B = 1 THEN \E exception \in {"ZeroDivisionError", "ValueError"} : Raise(exception)
       ELSE LET sorted == [h \in 1..Stop |-> Sorted(corr_values[h])]
            IN  /\ corr_values' = sorted
                /\ jack_theta' = [h \in 1..Stop |-> JackTheta(sorted[h])]
                /\ count' = [h \in 1..Stop |-> Count(sorted[h], corr_matrix[h][1][y])]
                /\ pc' = "bca"
                /\ UNCHANGED <<objVars, alpha, tolerance, tolVars, BCa, B, y, n, new_size_N,
                               new_size_M, values_N, values_M, bound, drawn, theta_low, theta_up,
                               corr_func, conf_int, calls>>

\* norm.ppf(count / B) is infinite for count 0 and count B, and a
\* not-a-number jackknife value makes accel not-a-number: the argument of
\* norm.cdf is then not-a-number and int() raises (line 395).
NoIndex(h) ==
    \/ count[h] = 0
    \/ count[h] = B
    \/ \E j \in 1..Len(jack_theta[h]) : IsNaN(jack_theta[h][j])

\* lines 392-406.  The adjusted indices are values of the normal
\* distribution function times B, cut or rounded up: they are in 0 .. B,
\* and any of them may come out.
IntervalBCa ==
    /\ pc = "bca"
    /\ IF \E h \in 1..Stop : NoIndex(h) THEN Raise("ValueError")
       ELSE \E lower, upper \in [1..Stop -> 0..B] :
                /\ theta_low' = [h \in 1..3 |->
                      IF h <= Stop
                      THEN Append(theta_low[h], PyItem(corr_values[h], lower[h] - 1))
                      ELSE theta_low[h]]
                /\ theta_up' = [h \in 1..3 |->
                      IF h <= Stop
                      THEN Append(theta_up[h], PyItem(corr_values[h], upper[h] - 1))
                      ELSE theta_up[h]]
                /\ corr_func' = [h \in 1..3 |->
                      IF h <= Stop THEN Append(corr_func[h], corr_matrix[h][1][y])
                      ELSE corr_func[h]]
                /\ y' = y + 1
                /\ pc' = "for_y"
                /\ UNCHANGED <<objVars, alpha, tolerance, tolVars, jackVars, B, n, new_size_N,
                               new_size_M, values_N, values_M, bound, drawn, corr_values, conf_int,
                               calls>>

\* lines 424-427: the nine lists as columns; a row per pair.
Table ==
    [row \in 1..Len(theta_low[1]) |->
        <<theta_low[1][row], theta_up[1][row], corr_func[1][row],
          theta_low[2][row], theta_up[2][row], corr_func[2][row],
          theta_low[3][row], theta_up[3][row], corr_func[3][row]>>]

\* lines 423-429: Conf_int.txt written, and the call returns.
WriteTable ==
    /\ pc = "for_y"
    /\ y > Len(seqs)
    /\ conf_int' = Table
    /\ last' = "bootstrapping_BCa"
    /\ CallOver
    /\ UNCHANGED <<seqs, files, has_files, limit, binning, corr, k, all_w, ordered_kmers, corr_matrix,
                   opt_k, max_k, err, built, calls>>

(***************************************************************************)
(* Word counting with k = 1, correlations and the bootstrap.               *)
(***************************************************************************)
MaxB == 2
MaxJack == 2

BootSeqs == {<<<<"A", "A", "A", "A">>, <<"A", "A", "T", "C">>>>,
             <<<<"A", "A", "T", "C">>, <<"A", "T", "T", "G">>, <<"C">>>>}

Tolerances == {0, 2, 5}

Alphas == {Rat(4549, 100000), Rat(1, 2)}

InitBoot == \E seqsArg \in BootSeqs, corrs \in Methods : Construct(seqsArg, corrs, TRUE)

BootSteps ==
    \/ NextPair
    \/ NextReplicate
    \/ RetryLoop
    \/ ExitLoop
    \/ Statistics
    \/ Interval
    \/ WriteTable

NextBoot ==
    \/ WordsOverlay(1)
    \/ Correlations
    \/ \E a \in Alphas, tol \in Tolerances, b \in 1..MaxB : BootstrappingBCa(a, tol, b, FALSE)
    \/ BootSteps

SpecBoot == InitBoot /\ [][NextBoot]_vars

\* The steps of a running call are taken one after the other, and every
\* list of words is drawn again and again: a draw that ends the retry loop,
\* when there is one, is drawn at last.
EndingDraw ==
    /\ pc = "while"
    /\ WhileTest
    /\ \E sample_keys \in Draws : Redraw(sample_keys) /\ ~WhileTest'

\* The fair behaviours are checked from one list of two sequences.
InitFair ==
    \E corrs \in Methods :
        Construct(<<<<"A", "A", "A", "A">>, <<"A", "A", "T", "C">>>>, corrs, TRUE)

FairSpecBoot ==
    InitFair /\ [][NextBoot]_vars /\ WF_vars(RetryLoop) /\ WF_vars(ExitLoop)
             /\ WF_vars(EndingDraw)

(***************************************************************************)
(* The bootstrap in BCa mode.                                              *)
(***************************************************************************)
\* One list of two sequences whose replicates fall on both sides of the
\* correlation of the pair.
InitJack ==
    \E corrs \in Methods :
        Construct(<<<<"A", "A", "T", "C">>, <<"A", "T", "T", "G">>>>, corrs, TRUE)

JackSteps ==
    \/ NextPair
    \/ NextReplicate
    \/ RetryLoop
    \/ ExitLoop
    \/ Statistics
    \/ Jackknife
    \/ IntervalBCa
    \/ WriteTable

NextJack ==
    \/ WordsOverlay(1)
    \/ Correlations
    \/ \E tol \in Tolerances, b \in 1..MaxJack :
           BootstrappingBCa(Rat(4549, 100000), tol, b, TRUE)
    \/ JackSteps

SpecJack == InitJack /\ [][NextJack]_vars

(***************************************************************************)
(* Claims about the bootstrap.                                             *)
(***************************************************************************)
\* size lies within +/- tol of total, the ends included.
InBand(size, total, tol) ==
    /\ RLeq(RSub(total, I(tol)), size)
    /\ RLeq(size, RAdd(total, I(tol)))

\* C5: a replicate is computed only from a draw whose sum(R') lies within
\* +/- tolerance of sum(R) and whose sum(O') lies within +/- tolerance of
\* sum(O); a draw with either sum outside its band is drawn again.
C5_AcceptsOnlyInBand ==
    (pc = "for_n" /\ n >= 1) =>
      /\ InBand(RSum(values_N), RSum(ordered_kmers[1]), tolerance)
      /\ InBand(RSum(values_M), RSum(ordered_kmers[y]), tolerance)

\* C6: the retry loop always ends, by an accepted draw or by a reported
\* error, for every tolerance.
C6_RetryLoopEnds == (pc = "while") ~> (pc # "while")

Clamp(i, lo, hi) == IF i < lo THEN lo ELSE IF i > hi THEN hi ELSE i

\* C7: in percentile mode the 1-based lower index is floor(B * (1 - CL)) and
\* the upper index ceil(B * CL), both clamped into [1, B], and the interval
\* of a pair is (sorted[lower - 1], sorted[upper - 1]); B = 100 with
\* alpha = 0.05 gives the indices 5 and 95.
C7_PercentileIndices ==
    /\ LowerAlpha(100, Rat(1, 20)) = 5
    /\ UpperAlpha(100, Rat(1, 20)) = 95
    /\ (pc = "for_y" /\ y > 2) =>
         \A h \in 1..Stop :
           /\ theta_low[h][y - 2] =
                corr_values[h][Clamp(FloorR(RMul(I(B), alpha)), 1, B)]
           /\ theta_up[h][y - 2] =
                corr_values[h][Clamp(CeilR(RMul(I(B), RSub(I(1), alpha))), 1, B)]

\* The first of the three columns of a method in Conf_int.txt, less one.
ColumnOf(method) == IF method = "S" THEN 0 ELSE IF method = "T" THEN 3 ELSE 6

\* C8: the table has a row per pair (N - 1 rows) and nine columns, Spearman
\* (low, up, point), Kendall (low, up, point), Pearson (low, up, point); with
\* a single method its three columns hold its results (the point estimate is
\* the correlation of the pair) and the six other columns are not-a-number.
C8_TableColumns ==
    (last = "bootstrapping_BCa" /\ pc = "idle" /\ err = "none") =>
      /\ Len(conf_int) = Max(0, Len(seqs) - 1)
      /\ \A row \in 1..Len(conf_int) :
           /\ Len(conf_int[row]) = 9
           /\ corr = "ALL" =>
                \A h \in 1..3 : conf_int[row][3 * h] = corr_matrix[h][1][row + 1]
           /\ corr # "ALL" =>
                /\ conf_int[row][ColumnOf(corr) + 3] = corr_matrix[1][1][row + 1]
                /\ \A col \in 1..9 :
                     col \notin (ColumnOf(corr) + 1)..(ColumnOf(corr) + 3)
                       => IsNaN(conf_int[row][col])

(***************************************************************************)
(* sKmer(binning), lines 443-453.                                          *)
(***************************************************************************)
\* ss[i*binning:(i+1)*binning] for i in 0 .. len(ss) // binning - 1
Bins(ss, size) ==
    [i \in 1..(Len(ss) \div size) |-> SubSeq(ss, (i - 1) * size + 1, i * size)]

SKmer(size) ==
    /\ err = "none"
    /\ pc = "idle"
    /\ binning' = size
    /\ limit' = IF seqs = <<>> THEN limit ELSE Len(seqs[1]) \div size
    /\ seqs' = Flatten([ind \in 1..Len(seqs) |-> Bins(seqs[ind], size)])
    /\ last' = "sKmer"
    /\ UNCHANGED <<files, has_files, corr, k, all_w, ordered_kmers, corr_matrix, opt_k,
                   max_k, err, built, bootVars>>

(***************************************************************************)
(* histogram, lines 468-478.  occurr is the list self.ordered_kmers         *)
(* itself, and line 473 stores the relative frequencies in it.  The        *)
(* quotients are exact here; the figures are not part of the state.        *)
(***************************************************************************)
\* [x / sum(vector) for x in vector]
Normalised(vector) == [i \in 1..Len(vector) |-> RDiv(vector[i], RSum(vector))]

\* The first vector whose sum is 0: the division of line 473 raises there.
ZeroAt(occurr) ==
    LET bad == {ind \in 1..Len(occurr) : occurr[ind] # <<>> /\ RSum(occurr[ind]) = I(0)}
    IN  IF bad = {} THEN Len(occurr) + 1 ELSE CHOOSE ind \in bad : \A j \in bad : ind <= j

\* The vectors before the raising one are replaced, the others are left.
NormalisedUpTo(occurr, stop) ==
    [ind \in 1..Len(occurr) |-> IF ind < stop THEN Normalised(occurr[ind]) ELSE occurr[ind]]

Histogram ==
    /\ err = "none"
    /\ pc = "idle"
    /\ last' = "histogram"
    /\ IF k = 0
       THEN /\ err' = "TypeError"
            /\ UNCHANGED ordered_kmers
       ELSE LET stop == ZeroAt(ordered_kmers)
            IN  /\ ordered_kmers' = NormalisedUpTo(ordered_kmers, stop)
                /\ err' = IF stop <= Len(ordered_kmers) THEN "ZeroDivisionError" ELSE "none"
    /\ UNCHANGED <<seqs, files, has_files, limit, binning, corr, k, all_w, corr_matrix, opt_k,
                   max_k, built, bootVars>>

(***************************************************************************)
(* heatmap and heatmap_sKmer, lines 505-556 and 565-590: the attributes    *)
(* are read, and nothing is stored.  The exceptions are those of the       *)
(* method's own lines; the figures are not part of the state.              *)
(***************************************************************************)
\* The labels are "f1", "f2", ...: int(files[0]) raises on them (line 516).
HeatmapError(king_switch) ==
    IF ~has_files THEN "AttributeError"
    ELSE IF king_switch = "y" /\ files # <<>> THEN "ValueError"
    ELSE IF corr_matrix = <<>> THEN "TypeError"
    ELSE "none"

Heatmap(king_switch) ==
    /\ err = "none"
    /\ pc = "idle"
    /\ err' = HeatmapError(king_switch)
    /\ last' = "heatmap"
    /\ UNCHANGED <<seqs, files, has_files, limit, binning, corr, k, all_w, ordered_kmers,
                   corr_matrix, opt_k, max_k, built, bootVars>>

HeatmapSKmerError ==
    IF corr_matrix = <<>> THEN "TypeError"
    ELSE IF limit = -1 THEN "AttributeError"
    ELSE "none"

HeatmapSKmer ==
    /\ err = "none"
    /\ pc = "idle"
    /\ err' = HeatmapSKmerError
    /\ last' = "heatmap_sKmer"
    /\ UNCHANGED <<seqs, files, has_files, limit, binning, corr, k, all_w, ordered_kmers,
                   corr_matrix, opt_k, max_k, built, bootVars>>

(***************************************************************************)
(* A session: the operations of the class in any order on one object.      *)
(***************************************************************************)
MaxBin == 3

SessionSeqs == {<<<<"A", "T", "A", "T">>, <<"A", "A", "T", "C">>>>,
                <<<<"A", "A", "A", "T">>, <<"N", "N">>>>}

Init == \E seqsArg \in SessionSeqs, corrs \in Methods : Construct(seqsArg, corrs, TRUE)

Next ==
    \/ \E size \in 2..MaxBin : SKmer(size)
    \/ WordsOverlay(1)
    \/ Correlations
    \/ Histogram
    \/ \E king_switch \in {"y", "n"} : Heatmap(king_switch)
    \/ HeatmapSKmer
    \/ BootstrappingBCa(Rat(4549, 100000), 2, 1, FALSE)
    \/ BootSteps

Spec == Init /\ [][Next]_vars

\* C10: once words_overlay has built the frequency vectors no later
\* operation changes an entry of them: ordered_kmers is what it was when
\* words_overlay returned.
C10_VectorsNeverChange == ordered_kmers = built

\* C13: every replicate of every pair is computed from vectors drawn in
\* the replicate's own iteration: never from the vectors of an earlier
\* replicate or pair, nor from vectors that were not drawn at all.
C13_OwnDraw == (pc = "for_n" /\ n >= 1) => drawn

(***************************************************************************)
(* Claims about the BCa branch.                                            *)
(***************************************************************************)
\* The sum of the replicates at the positions other than j.
JackSumOne(list, j) == RSum(SubSeq(list, 1, j - 1) \o SubSeq(list, j + 1, Len(list)))

\* C12: in BCa mode, for every sorted list of B replicates, lists with
\* repeated values included, and every position j, the jackknife value j is
\* the sum of the replicates at the other positions divided by B - 1: one
\* replicate is left out.
C12_LeaveOneOut ==
    (pc = "bca") =>
      \A h \in 1..Stop : \A j \in 1..B :
        jack_theta[h][j] = RDiv(JackSumOne(corr_values[h], j), I(B - 1))

(***************************************************************************)
(* sKmer, words_overlay and correlations in any order.                     *)
(***************************************************************************)
InitBins ==
    \E seqsArg \in ListsUpTo(SeqPool, 2), corrs \in Methods : Construct(seqsArg, corrs, TRUE)

NextBins ==
    \/ \E size \in 2..MaxBin : SKmer(size)
    \/ \E kk \in Ks : WordsOverlay(kk)
    \/ Correlations

SpecBins == InitBins /\ [][NextBins]_vars

\* C14: after any calls of sKmer() and words_overlay(), when correlations()
\* runs on extracted words ordered_kmers holds one vector for every element
\* of seqs, and vector i is the count of seqs[i]; sKmer() after
\* words_overlay() does not leave the two out of step.
C14_InStep ==
    (last = "correlations" /\ k >= 1) =>
      /\ Len(ordered_kmers) = Len(seqs)
      /\ \A i \in 1..Len(seqs) : ordered_kmers[i] = CountVector(seqs[i], k, all_w)

====
